---- MODULE Spec2Model ----
(***************************************************************************)
(* Token lifecycle of auth-service: tokenService (internal/services/       *)
(* tokens_service.go) over the TokenRepo store (token_metadata table) and  *)
(* the users table.                                                        *)
(*                                                                         *)
(* Time is counted in ticks; a second is TicksPerSecond ticks, so that the *)
(* truncation done by jwt.NewNumericDate is visible.  A handler runs at a  *)
(* single instant `now`; the clock only moves between handlers (Tick).     *)
(* uuid.New() is modelled by its contract: an identifier never returned    *)
(* before.  Every handler takes the set `fails` of the database calls that *)
(* return an error if made; under Spec the database answers every call.    *)
(***************************************************************************)
EXTENDS Integers, FiniteSets, Sequences, TLC

\* ------------------------------------------------------------------ bounds
MaxTime == 4
MaxTokens == 4
MaxOps == 4
TicksPerSecond == 2

\* ------------------------------------------------------- configuration
\* JWT_ACCESS_TOKEN_DURATION / JWT_REFRESH_TOKEN_DURATION, scaled to ticks
\* (whole seconds, access shorter than refresh as in the defaults 15m/168h)
AccessTokenDuration == 1 * TicksPerSecond
RefreshTokenDuration == 2 * TicksPerSecond

\* services.TokenServiceConfig as main builds it when the environment sets
\* neither duration
TokenServiceConfig ==
  [AccessTokenDuration |-> AccessTokenDuration,
   RefreshTokenDuration |-> RefreshTokenDuration]

\* models.DefaultAccessTokenLifetime (15 minutes) and
\* models.DefaultRefreshTokenLifetime (7 days), on the same scale
DefaultAccessTokenLifetime == 1 * TicksPerSecond
DefaultRefreshTokenLifetime == 2 * TicksPerSecond
JWTSecret == "secret"
Issuer == "auth-service"

TokenTypeAccess == "access"
TokenTypeRefresh == "refresh"

UserIds == {1, 2}
Roles == {"user", "admin"}
\* time.Time{} : the zero time, before every instant of the run
ZeroTime == -1

\* ------------------------------------------------------------- errors
OK == "nil"
ErrTokenMalformed == "jwt.ErrTokenMalformed"
ErrTokenUnverifiable == "jwt.ErrTokenUnverifiable"
ErrTokenSignatureInvalid == "jwt.ErrTokenSignatureInvalid"
ErrTokenExpired == "jwt.ErrTokenExpired"
ErrTokenNotValidYet == "jwt.ErrTokenNotValidYet"
ErrTokenRevoked == "ErrTokenRevoked"
ErrInvalidTokenType == "ErrInvalidTokenType"
ErrStore == "store error"
ErrTokenNotFound == "token not found"
ErrInvalidToken == "invalid token"
ErrBadRequest == "400 Bad Request"
ErrInvalidCredentials == "401 invalid credentials"
ErrUserExists == "409 user with this email already exists"
ErrGenerateTokens == "500 failed to generate authentication tokens"
ErrGetUser == "failed to get user"

\* ------------------------------------------------------ pure helpers
\* strconv.FormatInt(n, 10) for the user ids of the model
FormatInt(n) == <<"1", "2", "3", "4", "5", "6", "7", "8", "9">>[n]

\* a faulty NewNumericDate: rounding up to the next whole second
NewNumericDateUp(t) == t + ((TicksPerSecond - (t % TicksPerSecond)) % TicksPerSecond)

\* jwt.NewNumericDate: truncation to jwt.TimePrecision (one second)
NewNumericDate(t) == t - (t % TicksPerSecond)

Email(u) == <<"a@b.com", "c@d.com", "e@f.com">>[u]

NoClaims ==
  [ID |-> 0, UserID |-> 0, Subject |-> "", Email |-> "", Role |-> "",
   TokenType |-> "", Issuer |-> "", ExpiresAt |-> ZeroTime,
   IssuedAt |-> ZeroTime, NotBefore |-> ZeroTime]

\* the empty string returned next to an error: not a three-segment JWT
NoToken == [segments |-> 1, alg |-> "", key |-> "", payload |-> NoClaims]

\* NumericDate.MarshalJSON: the date on the wire, in whole seconds
MarshalNumericDate(t) == t \div TicksPerSecond

\* NumericDate.UnmarshalJSON: the instant a number of seconds stands for
UnmarshalNumericDate(n) == n * TicksPerSecond

\* json.Marshal of the claims: the payload segment of the token
MarshalClaims(c) ==
  [c EXCEPT !.ExpiresAt = MarshalNumericDate(c.ExpiresAt),
            !.IssuedAt = MarshalNumericDate(c.IssuedAt),
            !.NotBefore = MarshalNumericDate(c.NotBefore)]

\* json.Unmarshal of the payload segment into &models.Claims{}
UnmarshalClaims(p) ==
  [p EXCEPT !.ExpiresAt = UnmarshalNumericDate(p.ExpiresAt),
            !.IssuedAt = UnmarshalNumericDate(p.IssuedAt),
            !.NotBefore = UnmarshalNumericDate(p.NotBefore)]

\* jwt.NewWithClaims(jwt.SigningMethodHS256, c).SignedString(secret): a
\* token string is its three segments: header (alg), payload, and the key
\* its signature was made with
SignedString(c) ==
  [segments |-> 3, alg |-> "HS256", key |-> JWTSecret, payload |-> MarshalClaims(c)]

\* token.Claims after parsing: the decoded payload
Claims(tok) == UnmarshalClaims(tok.payload)


\* ---------------------------------------------- golang-jwt/jwt/v5 parser
HMACAlgs == {"HS256", "HS384", "HS512"}

\* the keyfunc of ValidateToken: only *jwt.SigningMethodHMAC gets the key
ValidateKeyfunc(tok) == tok.alg \in HMACAlgs

\* the keyfunc of parseTokenWithoutValidation: the key for every method
RevokeKeyfunc(tok) == TRUE

\* Method.Verify with the []byte key the keyfunc returned: only an HMAC
\* method accepts a []byte key, and the MAC must be the secret's
SignatureValid(tok) == tok.alg \in HMACAlgs /\ tok.key = JWTSecret

\* a faulty expiry check: !now.After(exp)
VerifyExpiresAtInclusive(c, t) == t <= c.ExpiresAt

\* Validator.verifyExpiresAt: now.Before(exp)
VerifyExpiresAt(c, t) == t < c.ExpiresAt

\* a faulty not-before check: now.After(nbf)
VerifyNotBeforeStrict(c, t) == c.NotBefore < t

\* Validator.verifyNotBefore: !now.Before(nbf)
VerifyNotBefore(c, t) == ~(t < c.NotBefore)

\* jwt.ParseWithClaims(tokenStr, &Claims{}, keyfunc) at time t: the error
ParseWithClaims(tok, t, keyfuncOk) ==
  IF tok.segments # 3 THEN ErrTokenMalformed
  ELSE IF ~keyfuncOk THEN ErrTokenUnverifiable
  ELSE IF ~SignatureValid(tok) THEN ErrTokenSignatureInvalid
  ELSE IF ~VerifyExpiresAt(Claims(tok), t) THEN ErrTokenExpired
  ELSE IF ~VerifyNotBefore(Claims(tok), t) THEN ErrTokenNotValidYet
  ELSE OK

\* ------------------------------------------- TokenRepo (token_metadata)
\* constraints of the table: primary key, foreign key to users,
\* chk_token_type_valid, chk_expires_at_future
InsertAllowed(s, us, id, m) ==
  /\ id \notin DOMAIN s
  /\ m.user_id \in DOMAIN us
  /\ m.token_type \in {TokenTypeAccess, TokenTypeRefresh}
  /\ m.expires_at > m.created_at

\* a faulty SaveTokenMetadata: the new row of kind k replaces the owner's
\* earlier rows of kind k
SaveTokenMetadataReplace(s, id, m) ==
  LET old == {i \in DOMAIN s : s[i].user_id = m.user_id
                                /\ s[i].token_type = m.token_type}
  IN [i \in (DOMAIN s \ old) \cup {id} |-> IF i = id THEN m ELSE s[i]]

\* INSERT INTO token_metadata (...) VALUES (...)
SaveTokenMetadata(s, id, m) ==
  [i \in DOMAIN s \cup {id} |-> IF i = id THEN m ELSE s[i]]

\* a faulty IsTokenRevoked: a missing row counts as not revoked
IsTokenRevokedPermissive(s, id) ==
  IF id \notin DOMAIN s THEN FALSE ELSE s[id].is_revoked

\* SELECT is_revoked ... ; sql.ErrNoRows -> true
IsTokenRevoked(s, id) ==
  IF id \notin DOMAIN s THEN TRUE ELSE s[id].is_revoked

\* a faulty RevokeToken: the UPDATE writes another column and leaves
\* is_revoked as it was
RevokeTokenRowNoFlag(s, id) ==
  [i \in DOMAIN s |-> IF i = id THEN [s[i] EXCEPT !.last_used_at = ZeroTime] ELSE s[i]]

\* a faulty RevokeToken: ... WHERE id = $1 AND is_revoked = false, so that a
\* row revoked already does not count
RowsAffectedChanged(s, id) ==
  IF id \in DOMAIN s /\ ~s[id].is_revoked THEN 1 ELSE 0

\* a faulty RevokeToken: the count of updated rows is not looked at
RowsAffectedIgnored(s, id) == 1

\* result.RowsAffected() of UPDATE token_metadata ... WHERE id = $1
RowsAffected(s, id) == IF id \in DOMAIN s THEN 1 ELSE 0

\* a faulty RevokeToken: the UPDATE reaches every row of the token's owner
RevokeTokenRowOfOwner(s, id) ==
  [i \in DOMAIN s |->
     IF id \in DOMAIN s /\ s[i].user_id = s[id].user_id
     THEN [s[i] EXCEPT !.is_revoked = TRUE] ELSE s[i]]

\* a faulty RevokeToken: SET is_revoked = NOT is_revoked
RevokeTokenRowToggle(s, id) ==
  [i \in DOMAIN s |->
     IF i = id THEN [s[i] EXCEPT !.is_revoked = ~s[i].is_revoked] ELSE s[i]]

\* UPDATE token_metadata SET is_revoked = true WHERE id = $1
RevokeTokenRow(s, id) ==
  [i \in DOMAIN s |-> IF i = id THEN [s[i] EXCEPT !.is_revoked = TRUE] ELSE s[i]]

\* a faulty RevokeAllTokensForUser: ... AND token_type = 'access'
RevokeAllRowsAccessOnly(s, u) ==
  [i \in DOMAIN s |->
     IF s[i].user_id = u /\ s[i].is_revoked = FALSE
        /\ s[i].token_type = TokenTypeAccess
     THEN [s[i] EXCEPT !.is_revoked = TRUE] ELSE s[i]]

\* UPDATE ... SET is_revoked = true WHERE user_id = $1 AND is_revoked = false
RevokeAllRows(s, u) ==
  [i \in DOMAIN s |->
     IF s[i].user_id = u /\ s[i].is_revoked = FALSE
     THEN [s[i] EXCEPT !.is_revoked = TRUE] ELSE s[i]]

\* a faulty UpdateLastUsed: the use of a token also sets is_revoked
UpdateLastUsedClobber(s, id, t) ==
  [i \in DOMAIN s |->
     IF i = id THEN [s[i] EXCEPT !.last_used_at = t, !.is_revoked = TRUE]
     ELSE s[i]]

\* a faulty UpdateLastUsed: WHERE user_id = (the user of the token)
UpdateLastUsedOfUser(s, id, t) ==
  [i \in DOMAIN s |->
     IF id \in DOMAIN s /\ s[i].user_id = s[id].user_id
     THEN [s[i] EXCEPT !.last_used_at = t] ELSE s[i]]

\* a faulty UpdateLastUsed: SET last_used_at = $1, is_revoked = false
UpdateLastUsedUnrevoke(s, id, t) ==
  [i \in DOMAIN s |->
     IF i = id THEN [s[i] EXCEPT !.last_used_at = t, !.is_revoked = FALSE]
     ELSE s[i]]

\* UPDATE token_metadata SET last_used_at = $1 WHERE id = $2
UpdateLastUsed(s, id, t) ==
  [i \in DOMAIN s |-> IF i = id THEN [s[i] EXCEPT !.last_used_at = t] ELSE s[i]]

\* a faulty CleanupExpiredTokens: WHERE expires_at < $1 OR is_revoked
ExpiredRowsOrRevoked(s, t) ==
  {i \in DOMAIN s : s[i].expires_at < t \/ s[i].is_revoked}

\* a faulty CleanupExpiredTokens: WHERE expires_at <= $1
ExpiredRowsInclusive(s, t) == {i \in DOMAIN s : s[i].expires_at <= t}

\* DELETE FROM token_metadata WHERE expires_at < $1
ExpiredRows(s, t) == {i \in DOMAIN s : s[i].expires_at < t}

DeleteRows(s, ids) == [i \in DOMAIN s \ ids |-> s[i]]

\* ids of the rows whose revocation flag is set
RevokedRows(s) == {i \in DOMAIN s : s[i].is_revoked}

\* ------------------------------------------------- tokenService helpers
\* faulty access claims: the kind of the refresh token
AccessClaimsWrongType(cfg, id, u, user, t) ==
  [ID |-> id, UserID |-> u, Subject |-> FormatInt(u), Email |-> user.Email,
   Role |-> user.Role, TokenType |-> TokenTypeRefresh, Issuer |-> Issuer,
   ExpiresAt |-> NewNumericDate(t + cfg.AccessTokenDuration),
   IssuedAt |-> NewNumericDate(t), NotBefore |-> NewNumericDate(t)]

\* accessClaims := &models.Claims{...} of GenerateTokens and
\* RefreshAccessToken for user u at time t
AccessClaims(cfg, id, u, user, t) ==
  [ID |-> id, UserID |-> u, Subject |-> FormatInt(u), Email |-> user.Email,
   Role |-> user.Role, TokenType |-> TokenTypeAccess, Issuer |-> Issuer,
   ExpiresAt |-> NewNumericDate(t + cfg.AccessTokenDuration),
   IssuedAt |-> NewNumericDate(t), NotBefore |-> NewNumericDate(t)]

\* refreshClaims := &models.Claims{...}: no role
RefreshClaims(cfg, id, u, user, t) ==
  [ID |-> id, UserID |-> u, Subject |-> FormatInt(u), Email |-> user.Email,
   Role |-> "", TokenType |-> TokenTypeRefresh, Issuer |-> Issuer,
   ExpiresAt |-> NewNumericDate(t + cfg.RefreshTokenDuration),
   IssuedAt |-> NewNumericDate(t), NotBefore |-> NewNumericDate(t)]

\* faulty metadata: ExpiresAt from the clock, not from the signed claim
MetadataFromClock(c, t) ==
  [user_id |-> c.UserID, token_type |-> c.TokenType, is_revoked |-> FALSE,
   created_at |-> t,
   expires_at |-> t + (IF c.TokenType = TokenTypeAccess
                       THEN AccessTokenDuration ELSE RefreshTokenDuration),
   last_used_at |-> ZeroTime]

\* faulty metadata: every record expires as an access token does
MetadataAccessExpiry(c, t) ==
  [user_id |-> c.UserID, token_type |-> c.TokenType, is_revoked |-> FALSE,
   created_at |-> t, expires_at |-> NewNumericDate(t + AccessTokenDuration),
   last_used_at |-> ZeroTime]

\* models.TokenMetadata built from the claims; LastUsedAt is the zero time
Metadata(c, t) ==
  [user_id |-> c.UserID, token_type |-> c.TokenType, is_revoked |-> FALSE,
   created_at |-> t, expires_at |-> c.ExpiresAt, last_used_at |-> ZeroTime]

\* a faulty user lookup: the user as first registered, not as stored now
GetByIDStale(us, id) == [Email |-> Email(id), Role |-> "user"]

\* userRepo.GetByID: SELECT ... FROM users WHERE id = $1, for a user present
GetByID(us, id) == us[id]

\* a faulty failure path: the first INSERT is undone
AfterFailedSaveUndone(before, after) == before

\* return "", "", fmt.Errorf(...) after a failed SaveTokenMetadata: the
\* store stays as the earlier calls of the handler left it
AfterFailedSave(before, after) == after

\* a faulty error check: the error of the store call is dropped
SaveFailedIgnored(call, fails) == FALSE

\* if err := s.store.SaveTokenMetadata(ctx, ...); err != nil
SaveFailed(call, fails) == call \in fails

\* a faulty kind check: every kind passes
IsRefreshTokenAny(claims) == TRUE

\* claims.TokenType != models.TokenTypeRefresh -> ErrInvalidTokenType
IsRefreshToken(claims) == claims.TokenType = TokenTypeRefresh

\* a faulty ValidateToken: the error of UpdateLastUsed is returned
LastUsedErrorReturned(err) == err

\* ValidateToken after UpdateLastUsed returned err: the error is logged and
\* the validation goes on
LastUsedError(err) == OK

\* a faulty ValidateToken: only access tokens pass
ClaimsOkAccessOnly(claims) == claims.TokenType = TokenTypeAccess

\* claims, ok := token.Claims.(*models.Claims); ok && token.Valid: true of
\* every token that ParseWithClaims returned without an error
ClaimsOk(claims) == TRUE

\* tokenService.ValidateToken on store s at time t.  fails: the database
\* calls that return an error if they are made; hit: those that were made
ValidateResult(tok, s, t, fails) ==
  LET perr == ParseWithClaims(tok, t, ValidateKeyfunc(tok))
      claims == Claims(tok)
      id == claims.ID
  IN IF perr # OK
       THEN [err |-> perr, claims |-> NoClaims, store |-> s, hit |-> {}]
     ELSE IF ~ClaimsOk(claims)
       THEN [err |-> ErrInvalidToken, claims |-> NoClaims, store |-> s,
             hit |-> {}]
     ELSE IF "IsTokenRevoked" \in fails
       THEN [err |-> ErrStore, claims |-> NoClaims, store |-> s,
             hit |-> {"IsTokenRevoked"}]
     ELSE IF IsTokenRevoked(s, id)
       THEN [err |-> ErrTokenRevoked, claims |-> NoClaims, store |-> s, hit |-> {}]
     ELSE IF "UpdateLastUsed" \in fails
       THEN [err |-> LastUsedError(ErrStore),
             claims |-> IF LastUsedError(ErrStore) = OK THEN claims ELSE NoClaims,
             store |-> s, hit |-> {"UpdateLastUsed"}]
     ELSE [err |-> OK, claims |-> claims,
           store |-> UpdateLastUsed(s, id, t), hit |-> {}]

\* would ValidateToken accept tok on store s at time t (database answering)
Validates(tok, s, t) == ValidateResult(tok, s, t, {}).err = OK

VARIABLES ops, now, users, store, issued, nextId, revokedEver, last,
          inflight, outrun, config

vars == <<ops, now, users, store, issued, nextId, revokedEver, last,
          inflight, outrun, config>>

NoResult(op) ==
  [op |-> op, user |-> 0, tok |-> NoToken, err |-> OK, claims |-> NoClaims,
   access |-> NoToken, refresh |-> NoToken, dbErr |-> {},
   deleted |-> {}, valid |-> FALSE, expires_in |-> 0,
   refresh_expires_in |-> 0]

\* the strings a caller can present: every signed token, and for each the
\* same token re-signed with another key, with the algorithm header
\* replaced, and one carrying a later not-before under the secret; and a
\* string that is not a three-segment JWT
Variants(t) ==
  {t, [t EXCEPT !.key = "forged"], [t EXCEPT !.alg = "none"],
   [t EXCEPT !.payload.NotBefore = t.payload.NotBefore + 1]}

Garbage == [segments |-> 2, alg |-> "", key |-> "", payload |-> NoClaims]

\* the token strings the service has signed
Issued == {issued[i] : i \in DOMAIN issued}

Presentable == {Garbage} \cup UNION {Variants(issued[i]) : i \in DOMAIN issued}

\* the call of RefreshAccessToken or GenerateTokens that is under way, if
\* any: its user, where it stands, the time and identifiers of its tokens,
\* and whether a RevokeAllTokensForUser for its user has completed since it
\* started
NoCall == [op |-> "none", user |-> 0, pc |-> "", at |-> 0, ids |-> {},
           crossed |-> FALSE]

Extend(f, id, v) == [i \in DOMAIN f \cup {id} |-> IF i = id THEN v ELSE f[i]]

Init ==
  /\ ops = 0
  /\ now = 0
  /\ users = [u \in UserIds |-> [Email |-> Email(u), Role |-> "user"]]
  /\ store = << >>
  /\ issued = << >>
  /\ nextId = 1
  /\ revokedEver = {}
  /\ last = NoResult("Init")
  /\ inflight = NoCall
  /\ outrun = {}
  /\ config = TokenServiceConfig

\* a call is counted; the run is cut after MaxOps calls
Counted == ops < MaxOps /\ ops' = ops + 1

\* time passes between two handlers
Tick ==
  /\ now < MaxTime
  /\ now' = now + 1
  /\ last' = NoResult("Tick")
  /\ UNCHANGED <<config, inflight, outrun, ops, users, store, issued, nextId,
                 revokedEver>>

\* tokenService.GenerateTokens for user u, whose row reads user, with
\* configuration cfg on users us and store s at time t, the new identifiers
\* being id and id + 1
GenerateResult(cfg, u, user, us, s, id, t, fails) ==
  LET accessTokenID == id
      refreshTokenID == id + 1
      accessClaims == AccessClaims(cfg, accessTokenID, u, user, t)
      refreshClaims == RefreshClaims(cfg, refreshTokenID, u, user, t)
      accessToken == SignedString(accessClaims)
      refreshToken == SignedString(refreshClaims)
      accessMetadata == Metadata(accessClaims, t)
      refreshMetadata == Metadata(refreshClaims, t)
      okA == /\ ~SaveFailed("SaveAccess", fails)
             /\ InsertAllowed(s, us, accessTokenID, accessMetadata)
      s1 == IF okA THEN SaveTokenMetadata(s, accessTokenID, accessMetadata)
            ELSE s
      okR == /\ okA
             /\ ~SaveFailed("SaveRefresh", fails)
             /\ InsertAllowed(s1, us, refreshTokenID, refreshMetadata)
      s2 == IF okR THEN SaveTokenMetadata(s1, refreshTokenID, refreshMetadata)
            ELSE AfterFailedSave(s, s1)
  IN [err |-> IF okR THEN OK ELSE ErrStore,
      accessToken |-> accessToken, refreshToken |-> refreshToken,
      store |-> s2,
      hit |-> IF ~okA THEN fails \cap {"SaveAccess"}
              ELSE fails \cap {"SaveRefresh"}]

GenerateTokens(u, fails) ==
  /\ Counted
  /\ u \in DOMAIN users
  /\ nextId + 1 <= MaxTokens
  /\ LET g == GenerateResult(config, u, users[u], users, store, nextId, now, fails)
     IN /\ fails = g.hit
        /\ store' = g.store
        /\ issued' = Extend(Extend(issued, nextId, g.accessToken),
                            nextId + 1, g.refreshToken)
        /\ nextId' = nextId + 2
        /\ revokedEver' = revokedEver \cup RevokedRows(g.store)
        /\ last' = [NoResult("GenerateTokens") EXCEPT
                      !.user = u,
                      !.err = g.err,
                      !.access = IF g.err = OK THEN g.accessToken ELSE NoToken,
                      !.refresh = IF g.err = OK THEN g.refreshToken ELSE NoToken,
                      !.dbErr = g.hit]
  /\ UNCHANGED <<config, inflight, outrun, now, users>>

ValidateToken(tok, fails) ==
  LET r == ValidateResult(tok, store, now, fails)
  IN /\ Counted
     /\ fails = r.hit
     /\ store' = r.store
     /\ revokedEver' = revokedEver \cup RevokedRows(r.store)
     /\ last' = [NoResult("ValidateToken") EXCEPT
                   !.tok = tok, !.err = r.err, !.claims = r.claims,
                   !.dbErr = r.hit]
     /\ UNCHANGED <<config, inflight, outrun, now, users, issued, nextId>>

RefreshAccessToken(tok, fails) ==
  LET v == ValidateResult(tok, store, now, fails)
      claims == v.claims
      userOk == "GetByID" \notin fails /\ claims.UserID \in DOMAIN users
      reached == v.err = OK /\ IsRefreshToken(claims) /\ userOk
      accessTokenID == nextId
      accessClaims == AccessClaims(config, accessTokenID, claims.UserID,
                                   GetByID(users, claims.UserID), now)
      accessToken == SignedString(accessClaims)
      accessMetadata == Metadata(accessClaims, now)
      saved == /\ ~SaveFailed("SaveAccess", fails)
               /\ InsertAllowed(v.store, users, accessTokenID, accessMetadata)
      err == IF v.err # OK THEN v.err
             ELSE IF ~IsRefreshToken(claims) THEN ErrInvalidTokenType
             ELSE IF ~userOk THEN ErrGetUser
             ELSE IF ~saved THEN ErrStore
             ELSE OK
      hit == v.hit
             \cup (IF v.err = OK /\ IsRefreshToken(claims)
                   THEN fails \cap {"GetByID"} ELSE {})
             \cup (IF reached THEN fails \cap {"SaveAccess"} ELSE {})
  IN /\ Counted
     /\ reached => nextId <= MaxTokens
     /\ fails = hit
     /\ store' = IF reached /\ saved
                 THEN SaveTokenMetadata(v.store, accessTokenID, accessMetadata)
                 ELSE v.store
     /\ issued' = IF reached THEN Extend(issued, accessTokenID, accessToken)
                  ELSE issued
     /\ nextId' = IF reached THEN nextId + 1 ELSE nextId
     /\ revokedEver' = revokedEver \cup RevokedRows(store')
     /\ last' = [NoResult("RefreshAccessToken") EXCEPT
                   !.tok = tok, !.err = err,
                   !.access = IF err = OK THEN accessToken ELSE NoToken,
                   !.dbErr = hit,
                   !.valid = Validates(tok, store, now)]
     /\ UNCHANGED <<config, inflight, outrun, now, users>>

\* a faulty parseTokenWithoutValidation: if err != nil { return nil, err }
ParseTokenWithValidation(tok) == ParseWithClaims(tok, now, RevokeKeyfunc(tok))

\* parseTokenWithoutValidation: fails only when no token came back
ParseTokenWithoutValidation(tok) ==
  LET perr == ParseWithClaims(tok, now, RevokeKeyfunc(tok))
  IN IF perr = ErrTokenMalformed THEN ErrTokenMalformed ELSE OK

RevokeToken(tok, fails) ==
  LET perr == ParseTokenWithoutValidation(tok)
      id == Claims(tok).ID
      err == IF perr # OK THEN perr
             ELSE IF "RevokeToken" \in fails THEN ErrStore
             ELSE IF RowsAffected(store, id) = 0 THEN ErrTokenNotFound
             ELSE OK
      hit == IF perr = OK THEN fails \cap {"RevokeToken"} ELSE {}
  IN /\ Counted
     /\ fails = hit
     /\ store' = IF err = OK THEN RevokeTokenRow(store, id) ELSE store
     /\ revokedEver' = revokedEver \cup RevokedRows(store')
     /\ last' = [NoResult("RevokeToken") EXCEPT
                   !.tok = tok, !.err = err, !.dbErr = hit,
                   !.valid = Validates(tok, store, now)]
     /\ UNCHANGED <<config, inflight, outrun, now, users, issued, nextId>>

RevokeAllTokensForUser(u, fails) ==
  LET err == IF "RevokeAllTokensForUser" \in fails THEN ErrStore ELSE OK
  IN /\ Counted
     /\ store' = IF err = OK THEN RevokeAllRows(store, u) ELSE store
     /\ revokedEver' = revokedEver \cup RevokedRows(store')
     /\ last' = [NoResult("RevokeAllTokensForUser") EXCEPT
                   !.user = u, !.err = err, !.dbErr = fails]
     /\ inflight' = IF err = OK /\ inflight.op # "none" /\ inflight.user = u
                    THEN [inflight EXCEPT !.crossed = TRUE] ELSE inflight
     /\ UNCHANGED <<config, outrun, now, users, issued, nextId>>

CleanupExpiredTokens(fails) ==
  LET err == IF "CleanupExpiredTokens" \in fails THEN ErrStore ELSE OK
      gone == IF err = OK THEN ExpiredRows(store, now) ELSE {}
  IN /\ Counted
     /\ store' = DeleteRows(store, gone)
     /\ revokedEver' = revokedEver \cup RevokedRows(store')
     /\ last' = [NoResult("CleanupExpiredTokens") EXCEPT
                   !.err = err, !.dbErr = fails, !.deleted = gone]
     /\ UNCHANGED <<config, inflight, outrun, now, users, issued, nextId>>

\* a faulty schema: the rows of a deleted user stay behind
DeleteByIDNoCascade(u) ==
  /\ Counted
  /\ u \in DOMAIN users
  /\ users' = [x \in DOMAIN users \ {u} |-> users[x]]
  /\ last' = [NoResult("DeleteByID") EXCEPT !.user = u]
  /\ UNCHANGED <<config, inflight, outrun, now, store, issued, nextId,
                 revokedEver>>

\* UserRepo.DeleteByID: DELETE FROM users; token_metadata rows of the user
\* go with it (fk_token_metadata_user_id ... ON DELETE CASCADE)
DeleteByID(u) ==
  /\ Counted
  /\ u \in DOMAIN users
  /\ users' = [x \in DOMAIN users \ {u} |-> users[x]]
  /\ store' = DeleteRows(store, {i \in DOMAIN store : store[i].user_id = u})
  /\ revokedEver' = revokedEver \cup RevokedRows(store')
  /\ last' = [NoResult("DeleteByID") EXCEPT !.user = u]
  /\ UNCHANGED <<config, inflight, outrun, now, issued, nextId>>

\* UserRepo.Update with a new role
Update(u, role) ==
  /\ Counted
  /\ u \in DOMAIN users
  /\ users[u].Role # role
  /\ users' = [users EXCEPT ![u].Role = role]
  /\ last' = [NoResult("Update") EXCEPT !.user = u]
  /\ UNCHANGED <<config, inflight, outrun, now, store, issued, nextId,
                 revokedEver>>

\* the calls of the token service and of the user repository, the database
\* answering every query
Next ==
  \/ Tick
  \/ \E u \in UserIds : GenerateTokens(u, {})
  \/ \E tok \in Presentable : ValidateToken(tok, {})
  \/ \E tok \in Presentable : RefreshAccessToken(tok, {})
  \/ \E tok \in Presentable : RevokeToken(tok, {})
  \/ \E u \in UserIds : RevokeAllTokensForUser(u, {})
  \/ CleanupExpiredTokens({})
  \/ \E u \in UserIds : DeleteByID(u)
  \/ \E u \in UserIds, role \in Roles : Update(u, role)

Spec == Init /\ [][Next]_vars

\* the database calls that fail during one handler: none, or one of calls
AtMostOne(calls) == {{}} \cup {{c} : c \in calls}

\* the calls of the token service with a database that may fail a call
NextFaults ==
  \/ Tick
  \/ \E u \in UserIds, fails \in AtMostOne({"SaveAccess", "SaveRefresh"}) :
       GenerateTokens(u, fails)
  \/ \E tok \in Issued, fails \in AtMostOne({"IsTokenRevoked", "UpdateLastUsed"}) :
       ValidateToken(tok, fails)
  \/ \E tok \in Issued,
        fails \in AtMostOne({"IsTokenRevoked", "UpdateLastUsed", "GetByID", "SaveAccess"}) :
       RefreshAccessToken(tok, fails)
  \/ \E tok \in Issued, fails \in AtMostOne({"RevokeToken"}) : RevokeToken(tok, fails)
  \/ \E u \in UserIds, fails \in AtMostOne({"RevokeAllTokensForUser"}) :
       RevokeAllTokensForUser(u, fails)
  \/ \E fails \in AtMostOne({"CleanupExpiredTokens"}) : CleanupExpiredTokens(fails)

SpecFaults == Init /\ [][NextFaults]_vars

\* ---------------------------------------------- calls taken step by step
\* The service holds no lock and opens no transaction: between two database
\* calls of one handler, the handlers of other requests run.

\* RefreshAccessToken up to the kind check: ValidateToken has accepted the
\* refresh token
RefreshValidate(tok) ==
  LET v == ValidateResult(tok, store, now, {})
  IN /\ Counted
     /\ inflight = NoCall
     /\ v.err = OK
     /\ IsRefreshToken(v.claims)
     /\ store' = v.store
     /\ revokedEver' = revokedEver \cup RevokedRows(v.store)
     /\ inflight' = [NoCall EXCEPT !.op = "RefreshAccessToken",
                                   !.user = v.claims.UserID,
                                   !.pc = "GetByID", !.at = now]
     /\ last' = [NoResult("RefreshValidate") EXCEPT !.tok = tok]
     /\ UNCHANGED <<config, now, users, issued, nextId, outrun>>

\* RefreshAccessToken from userRepo.GetByID to its return
RefreshIssue ==
  LET u == inflight.user
      userOk == u \in DOMAIN users
      accessTokenID == nextId
      accessClaims == AccessClaims(config, accessTokenID, u,
                                   GetByID(users, u), now)
      accessToken == SignedString(accessClaims)
      accessMetadata == Metadata(accessClaims, now)
      saved == userOk /\ InsertAllowed(store, users, accessTokenID, accessMetadata)
      err == IF ~userOk THEN ErrGetUser ELSE IF ~saved THEN ErrStore ELSE OK
  IN /\ inflight.op = "RefreshAccessToken"
     /\ nextId <= MaxTokens
     /\ store' = IF saved
                 THEN SaveTokenMetadata(store, accessTokenID, accessMetadata)
                 ELSE store
     /\ issued' = IF userOk THEN Extend(issued, accessTokenID, accessToken)
                  ELSE issued
     /\ nextId' = IF userOk THEN nextId + 1 ELSE nextId
     /\ revokedEver' = revokedEver \cup RevokedRows(store')
     /\ outrun' = IF saved /\ inflight.crossed THEN outrun \cup {accessTokenID}
                  ELSE outrun
     /\ inflight' = NoCall
     /\ last' = [NoResult("RefreshIssue") EXCEPT
                   !.user = u, !.err = err,
                   !.access = IF err = OK THEN accessToken ELSE NoToken]
     /\ UNCHANGED <<config, ops, now, users>>

\* GenerateTokens up to the first SaveTokenMetadata: both tokens are signed
\* and both metadata values built
GenerateSign(u) ==
  /\ Counted
  /\ inflight = NoCall
  /\ u \in DOMAIN users
  /\ nextId + 1 <= MaxTokens
  /\ LET user == users[u]
         accessToken == SignedString(AccessClaims(config, nextId, u, user, now))
         refreshToken == SignedString(RefreshClaims(config, nextId + 1, u, user, now))
     IN issued' = Extend(Extend(issued, nextId, accessToken),
                         nextId + 1, refreshToken)
  /\ nextId' = nextId + 2
  /\ inflight' = [NoCall EXCEPT !.op = "GenerateTokens", !.user = u,
                                !.pc = "SaveAccess", !.at = now,
                                !.ids = {nextId, nextId + 1}]
  /\ last' = [NoResult("GenerateSign") EXCEPT !.user = u]
  /\ UNCHANGED <<config, now, users, store, revokedEver, outrun>>

\* the identifiers of the call under way: the access token's is the first
AccessIdOf(call) == CHOOSE i \in call.ids : \A j \in call.ids : i <= j
RefreshIdOf(call) == CHOOSE i \in call.ids : \A j \in call.ids : j <= i

\* GenerateTokens: s.store.SaveTokenMetadata(ctx, accessMetadata)
GenerateSaveAccess ==
  LET id == AccessIdOf(inflight)
      accessMetadata == Metadata(Claims(issued[id]), inflight.at)
      ok == InsertAllowed(store, users, id, accessMetadata)
  IN /\ inflight.op = "GenerateTokens"
     /\ inflight.pc = "SaveAccess"
     /\ store' = IF ok THEN SaveTokenMetadata(store, id, accessMetadata) ELSE store
     /\ revokedEver' = revokedEver \cup RevokedRows(store')
     /\ inflight' = IF ok THEN [inflight EXCEPT !.pc = "SaveRefresh"] ELSE NoCall
     /\ last' = [NoResult("GenerateSaveAccess") EXCEPT
                   !.user = inflight.user, !.err = IF ok THEN OK ELSE ErrStore]
     /\ UNCHANGED <<config, ops, now, users, issued, nextId, outrun>>

\* GenerateTokens: s.store.SaveTokenMetadata(ctx, refreshMetadata), and the
\* return of both tokens
GenerateSaveRefresh ==
  LET id == RefreshIdOf(inflight)
      refreshMetadata == Metadata(Claims(issued[id]), inflight.at)
      ok == InsertAllowed(store, users, id, refreshMetadata)
  IN /\ inflight.op = "GenerateTokens"
     /\ inflight.pc = "SaveRefresh"
     /\ store' = IF ok THEN SaveTokenMetadata(store, id, refreshMetadata) ELSE store
     /\ revokedEver' = revokedEver \cup RevokedRows(store')
     /\ outrun' = IF ok /\ inflight.crossed THEN outrun \cup inflight.ids
                  ELSE outrun
     /\ inflight' = NoCall
     /\ last' = [NoResult("GenerateSaveRefresh") EXCEPT
                   !.user = inflight.user,
                   !.err = IF ok THEN OK ELSE ErrStore,
                   !.access = IF ok THEN issued[AccessIdOf(inflight)] ELSE NoToken,
                   !.refresh = IF ok THEN issued[id] ELSE NoToken]
     /\ UNCHANGED <<config, ops, now, users, issued, nextId>>

\* ValidateToken up to its revocation check: the token is decoded and its
\* record is there and not revoked
ValidateCheck(tok) ==
  LET perr == ParseWithClaims(tok, now, ValidateKeyfunc(tok))
      claims == Claims(tok)
  IN /\ Counted
     /\ inflight = NoCall
     /\ perr = OK
     /\ ~IsTokenRevoked(store, claims.ID)
     /\ inflight' = [NoCall EXCEPT !.op = "ValidateToken",
                                   !.user = claims.UserID,
                                   !.pc = "UpdateLastUsed", !.at = now,
                                   !.ids = {claims.ID}]
     /\ last' = [NoResult("ValidateCheck") EXCEPT !.tok = tok]
     /\ UNCHANGED <<config, now, users, store, issued, nextId, revokedEver,
                    outrun>>

\* ValidateToken from s.store.UpdateLastUsed to its return: the update of a
\* row that is gone changes nothing and is no error
ValidateTouch ==
  LET id == AccessIdOf(inflight)
  IN /\ inflight.op = "ValidateToken"
     /\ store' = UpdateLastUsed(store, id, now)
     /\ revokedEver' = revokedEver \cup RevokedRows(store')
     /\ inflight' = NoCall
     /\ last' = [NoResult("ValidateTouch") EXCEPT
                   !.tok = issued[id], !.user = inflight.user,
                   !.claims = Claims(issued[id])]
     /\ UNCHANGED <<config, ops, now, users, issued, nextId, outrun>>

\* the handlers of concurrent requests: one RefreshAccessToken,
\* GenerateTokens or ValidateToken taken step by step, the others in between
\* its steps
NextInterleaved ==
  \/ Tick
  \/ \E u \in UserIds : GenerateTokens(u, {})
  \/ \E tok \in Issued : ValidateToken(tok, {})
  \/ \E u \in UserIds : RevokeAllTokensForUser(u, {})
  \/ \E tok \in Issued : RefreshAccessToken(tok, {})
  \/ \E u \in UserIds : DeleteByID(u)
  \/ \E tok \in Issued : RefreshValidate(tok)
  \/ RefreshIssue
  \/ \E u \in UserIds : GenerateSign(u)
  \/ GenerateSaveAccess
  \/ GenerateSaveRefresh
  \/ \E tok \in Issued : RevokeToken(tok, {})
  \/ \E tok \in Issued : ValidateCheck(tok)
  \/ ValidateTouch

SpecInterleaved == Init /\ [][NextInterleaved]_vars

\* ------------------------------------------------------- the API layer
MaxDuration == 3

\* the durations the environment can configure, in ticks
Durations == 1 .. MaxDuration

\* time.Duration.Seconds() converted to int64: whole seconds
Seconds(d) == d \div TicksPerSecond

\* models.TokenResponse of Authenticate and Register for a token pair
TokenResponse(op, u, accessToken, refreshToken) ==
  [NoResult(op) EXCEPT
     !.user = u, !.access = accessToken, !.refresh = refreshToken,
     !.expires_in = Seconds(DefaultAccessTokenLifetime),
     !.refresh_expires_in = Seconds(DefaultRefreshTokenLifetime)]

\* AuthHandler.Authenticate for the email of user u; payloadOk: the body
\* decodes and has both fields; valid: the password matches.  The update of
\* the last login time changes neither the email nor the role.
Authenticate(u, payloadOk, valid) ==
  LET found == u \in DOMAIN users
      reached == payloadOk /\ found /\ valid
      g == GenerateResult(config, u, users[u], users, store, nextId, now, {})
  IN /\ Counted
     /\ reached => nextId + 1 <= MaxTokens
     /\ store' = IF reached THEN g.store ELSE store
     /\ issued' = IF reached
                  THEN Extend(Extend(issued, nextId, g.accessToken),
                              nextId + 1, g.refreshToken)
                  ELSE issued
     /\ nextId' = IF reached THEN nextId + 2 ELSE nextId
     /\ revokedEver' = revokedEver \cup RevokedRows(store')
     /\ last' = IF ~payloadOk
                THEN [NoResult("Authenticate") EXCEPT !.user = u, !.err = ErrBadRequest]
                ELSE IF ~found \/ ~valid
                THEN [NoResult("Authenticate") EXCEPT
                        !.user = u, !.err = ErrInvalidCredentials]
                ELSE IF g.err # OK
                THEN [NoResult("Authenticate") EXCEPT
                        !.user = u, !.err = ErrGenerateTokens]
                ELSE TokenResponse("Authenticate", u, g.accessToken, g.refreshToken)
     /\ UNCHANGED <<config, inflight, outrun, now, users>>

\* AuthHandler.Register for the email of user u: the user is inserted with
\* role user, read back and logged in; when GenerateTokens fails the user
\* stays registered and the response carries no token
Register(u, payloadOk) ==
  LET exists == u \in DOMAIN users
      reached == payloadOk /\ ~exists
      newUser == [Email |-> Email(u), Role |-> "user"]
      us == Extend(users, u, newUser)
      g == GenerateResult(config, u, newUser, us, store, nextId, now, {})
  IN /\ Counted
     /\ reached => nextId + 1 <= MaxTokens
     /\ users' = IF reached THEN us ELSE users
     /\ store' = IF reached THEN g.store ELSE store
     /\ issued' = IF reached
                  THEN Extend(Extend(issued, nextId, g.accessToken),
                              nextId + 1, g.refreshToken)
                  ELSE issued
     /\ nextId' = IF reached THEN nextId + 2 ELSE nextId
     /\ revokedEver' = revokedEver \cup RevokedRows(store')
     /\ last' = IF ~payloadOk
                THEN [NoResult("Register") EXCEPT !.user = u, !.err = ErrBadRequest]
                ELSE IF exists
                THEN [NoResult("Register") EXCEPT !.user = u, !.err = ErrUserExists]
                ELSE IF g.err # OK
                THEN [NoResult("Register") EXCEPT !.user = u]
                ELSE TokenResponse("Register", u, g.accessToken, g.refreshToken)
     /\ UNCHANGED <<config, inflight, outrun, now>>

\* the service started with any configured durations, one user registered
InitHandlers ==
  /\ ops = 0
  /\ now = 0
  /\ users = [u \in {1} |-> [Email |-> Email(u), Role |-> "user"]]
  /\ store = << >>
  /\ issued = << >>
  /\ nextId = 1
  /\ revokedEver = {}
  /\ last = NoResult("Init")
  /\ inflight = NoCall
  /\ outrun = {}
  /\ config \in [AccessTokenDuration : Durations, RefreshTokenDuration : Durations]

\* the requests of the API layer that issue tokens, and the validation of
\* the tokens they returned
NextHandlers ==
  \/ Tick
  \/ \E u \in UserIds, payloadOk \in BOOLEAN, valid \in BOOLEAN :
       Authenticate(u, payloadOk, valid)
  \/ \E u \in UserIds, payloadOk \in BOOLEAN : Register(u, payloadOk)
  \/ \E tok \in Issued : ValidateToken(tok, {})

SpecHandlers == InitHandlers /\ [][NextHandlers]_vars

\* ------------------------------------------------------------ claims

\* the signature of tok verifies under the configured secret with an
\* HMAC-family algorithm
WellSigned(tok) == tok.segments = 3 /\ tok.alg \in HMACAlgs /\ tok.key = JWTSecret

\* C1: whenever ValidateToken has just accepted a token, that token is signed
\* under the secret with an HMAC algorithm, the time of the call is before
\* its signed expiry and not before its not-before, and the metadata record
\* with its identifier exists and is not revoked.
C1_ValidateOnlyIf ==
  (last.op = "ValidateToken" /\ last.err = OK) =>
    LET c == Claims(last.tok)
    IN /\ WellSigned(last.tok)
       /\ now < c.ExpiresAt
       /\ c.NotBefore <= now
       /\ c.ID \in DOMAIN store
       /\ store[c.ID].is_revoked = FALSE
       /\ last.claims = c

\* C1 witness: ValidateToken has accepted a token
C1_Witness ==
  /\ last.op = "ValidateToken"
  /\ last.err = OK
  /\ Claims(last.tok).ID \in DOMAIN store

\* C2: in the state RevokeToken(t) leaves behind after succeeding on a token
\* that validated when it was called, ValidateToken(t) returns
\* ErrTokenRevoked.
C2_RevokeThenValidate ==
  (last.op = "RevokeToken" /\ last.err = OK /\ last.valid) =>
    ValidateResult(last.tok, store, now, {}).err = ErrTokenRevoked

\* C2 witness: RevokeToken has succeeded on a token that validated
C2_Witness ==
  /\ last.op = "RevokeToken"
  /\ last.err = OK
  /\ last.valid
  /\ store[Claims(last.tok).ID].is_revoked

\* what ValidateToken answers for tok on store s at time t when the token
\* does not get past decoding, and ErrTokenRevoked when it does
DecodeErrorOrRevoked(tok, t) ==
  LET perr == ParseWithClaims(tok, t, ValidateKeyfunc(tok))
  IN IF perr = OK THEN ErrTokenRevoked ELSE perr

\* the tokens issued so far to user u / to the other users
IssuedTo(u) == {i \in DOMAIN issued : Claims(issued[i]).UserID = u}
IssuedToOthers(u) == {i \in DOMAIN issued : Claims(issued[i]).UserID # u}

\* a step of RevokeAllTokensForUser(u) leaves the records of the other users
\* and the answers of ValidateToken for their tokens as they were
OthersUntouched(u) ==
  /\ DOMAIN store' = DOMAIN store
  /\ \A i \in DOMAIN store : store[i].user_id # u => store'[i] = store[i]
  /\ \A i \in IssuedToOthers(u) :
       ValidateResult(issued[i], store', now', {}).err
         = ValidateResult(issued[i], store, now, {}).err

\* C3 as stated: after RevokeAllTokensForUser(u) has returned, ValidateToken
\* on every token issued to u before the call fails with ErrTokenRevoked,
\* and the other users' tokens and records are as before.
C3_AllFailRevoked ==
  [][(last'.op = "RevokeAllTokensForUser" /\ last'.err = OK) =>
       /\ \A i \in IssuedTo(last'.user) :
            ValidateResult(issued[i], store', now', {}).err = ErrTokenRevoked
       /\ OthersUntouched(last'.user)]_vars

\* C3 amended: after RevokeAllTokensForUser(u) has returned, ValidateToken
\* on every token issued to u before the call fails: with ErrTokenRevoked
\* when the token still decodes (signature, expiry, not-before), and with
\* the decoding error otherwise, expiry being checked before revocation; the
\* other users' tokens and records are as before.
C3_AllFail ==
  [][(last'.op = "RevokeAllTokensForUser" /\ last'.err = OK) =>
       /\ \A i \in IssuedTo(last'.user) :
            ValidateResult(issued[i], store', now', {}).err
              = DecodeErrorOrRevoked(issued[i], now')
       /\ OthersUntouched(last'.user)]_vars

\* C3 witness: RevokeAllTokensForUser(u) has returned with an unexpired and
\* an expired token of u issued, and a token of another user that validates
C3_Witness ==
  /\ last.op = "RevokeAllTokensForUser"
  /\ last.err = OK
  /\ \E i \in IssuedTo(last.user) :
       /\ i \in DOMAIN store
       /\ ValidateResult(issued[i], store, now, {}).err = ErrTokenRevoked
  /\ \E i \in IssuedTo(last.user) :
       ValidateResult(issued[i], store, now, {}).err = ErrTokenExpired
  /\ \E i \in IssuedToOthers(last.user) : Validates(issued[i], store, now)

\* C4: revocation is monotonic: no step clears the revocation flag of a
\* record it keeps, and a token whose record was ever revoked is accepted by
\* ValidateToken in no later state, whatever has happened to the record since.
C4_RevocationMonotonic ==
  /\ [][\A i \in DOMAIN store :
          (store[i].is_revoked /\ i \in DOMAIN store') => store'[i].is_revoked]_vars
  /\ [](\A tok \in Presentable :
          Claims(tok).ID \in revokedEver => ~Validates(tok, store, now))
  /\ []((last.op \in {"ValidateToken", "RefreshAccessToken"} /\ last.err = OK)
          => Claims(last.tok).ID \notin revokedEver)

\* C4 witness: a token that validated was revoked, and a later ValidateToken
\* on it, still unexpired, has been refused
C4_Witness ==
  /\ last.op = "ValidateToken"
  /\ last.err = ErrTokenRevoked
  /\ Claims(last.tok).ID \in revokedEver
  /\ Claims(last.tok).ID \in DOMAIN store
  /\ store[Claims(last.tok).ID].last_used_at # ZeroTime

\* C5: a successful GenerateTokens(u) returns an access and a refresh token
\* signed under the secret whose subject is u's id, whose kinds are access
\* and refresh and whose identifiers differ, and adds exactly two records to
\* the store, under identifiers the store did not hold: each not revoked,
\* owned by u, of its token's kind, expiring at its token's signed expiry.
C5_GenerateTokens ==
  [][(last'.op = "GenerateTokens" /\ last'.err = OK) =>
       LET u == last'.user
           a == Claims(last'.access)
           r == Claims(last'.refresh)
       IN /\ WellSigned(last'.access) /\ WellSigned(last'.refresh)
          /\ a.Subject = FormatInt(u) /\ a.UserID = u
          /\ r.Subject = FormatInt(u) /\ r.UserID = u
          /\ a.TokenType = "access" /\ r.TokenType = "refresh"
          /\ a.ID # r.ID
          /\ {a.ID, r.ID} \cap DOMAIN store = {}
          /\ DOMAIN store' = DOMAIN store \cup {a.ID, r.ID}
          /\ \A i \in DOMAIN store : store'[i] = store[i]
          /\ \A c \in {a, r} :
               /\ store'[c.ID].is_revoked = FALSE
               /\ store'[c.ID].user_id = u
               /\ store'[c.ID].token_type = c.TokenType
               /\ store'[c.ID].expires_at = c.ExpiresAt]_vars

\* C5 witness: GenerateTokens has succeeded at an instant that is not a whole
\* second, with records already in the store
C5_Witness ==
  /\ last.op = "GenerateTokens"
  /\ last.err = OK
  /\ now % TicksPerSecond # 0
  /\ Cardinality(DOMAIN store) > 2
  /\ {Claims(last.access).ID, Claims(last.refresh).ID} \subseteq DOMAIN store

\* C6: in the state a successful GenerateTokens(u) leaves behind,
\* ValidateToken on the returned access token succeeds and returns the
\* issued claims: the identifier of the access record, u's id, email and
\* role, and the kind access.
C6_ValidateAfterIssue ==
  (last.op = "GenerateTokens" /\ last.err = OK) =>
    LET r == ValidateResult(last.access, store, now, {})
        u == last.user
    IN /\ r.err = OK
       /\ r.claims.ID \in DOMAIN store
       /\ store[r.claims.ID].token_type = "access"
       /\ store[r.claims.ID].created_at = now
       /\ r.claims.UserID = u
       /\ r.claims.Subject = FormatInt(u)
       /\ r.claims.Email = users[u].Email
       /\ r.claims.Role = users[u].Role
       /\ r.claims.TokenType = "access"
       /\ r.claims = AccessClaims(config, r.claims.ID, u, users[u], now)

\* C6 witness: GenerateTokens has succeeded for a user whose role was
\* changed, at an instant that is not a whole second
C6_Witness ==
  /\ last.op = "GenerateTokens"
  /\ last.err = OK
  /\ users[last.user].Role = "admin"
  /\ now % TicksPerSecond # 0
  /\ Validates(last.access, store, now)

\* C7: RefreshAccessToken called with a refresh token that validates
\* returns a new access token for the same subject, of kind access, with an
\* identifier no record and no issued token carries, and adds a non-revoked
\* record of kind access for it.
C7_RefreshIssuesAccess ==
  [][(/\ last'.op = "RefreshAccessToken"
      /\ last'.valid
      /\ Claims(last'.tok).TokenType = "refresh") =>
       LET c == Claims(last'.tok)
           a == Claims(last'.access)
       IN /\ last'.err = OK
          /\ WellSigned(last'.access)
          /\ a.UserID = c.UserID /\ a.Subject = c.Subject
          /\ a.TokenType = "access"
          /\ a.ID \notin DOMAIN store
          /\ a.ID \notin DOMAIN issued
          /\ \A i \in DOMAIN issued : Claims(issued[i]).ID # a.ID
          /\ a.ID \in DOMAIN store'
          /\ store'[a.ID].is_revoked = FALSE
          /\ store'[a.ID].token_type = "access"
          /\ store'[a.ID].user_id = c.UserID
          /\ store'[a.ID].expires_at = a.ExpiresAt
          /\ Validates(last'.access, store', now')]_vars

\* C7 witness: RefreshAccessToken has returned an access token for a refresh
\* token issued at an earlier instant
C7_Witness ==
  /\ last.op = "RefreshAccessToken"
  /\ last.err = OK
  /\ Claims(last.tok).TokenType = "refresh"
  /\ Claims(last.tok).IssuedAt < Claims(last.access).IssuedAt
  /\ Claims(last.access).ID \in DOMAIN store

\* the records of kind refresh in store s
RefreshRows(s) == {i \in DOMAIN s : s[i].token_type = "refresh"}

\* C8: a successful RefreshAccessToken does not rotate the refresh token:
\* its record stays, not revoked and unchanged but for its last use, the
\* only record added is the new access token's, no record of kind refresh
\* appears, and the same refresh token validates afterwards and so can be
\* presented for a further refresh.
C8_NoRotation ==
  [][(last'.op = "RefreshAccessToken" /\ last'.err = OK) =>
       LET id == Claims(last'.tok).ID
           a == Claims(last'.access)
       IN /\ id \in DOMAIN store /\ id \in DOMAIN store'
          /\ store'[id] = [store[id] EXCEPT !.last_used_at = now]
          /\ store'[id].is_revoked = FALSE
          /\ store'[id].token_type = "refresh"
          /\ DOMAIN store' = DOMAIN store \cup {a.ID}
          /\ RefreshRows(store') = RefreshRows(store)
          /\ \A i \in DOMAIN store \ {id} : store'[i] = store[i]
          /\ Validates(last'.tok, store', now')
          /\ IsRefreshToken(ValidateResult(last'.tok, store', now', {}).claims)]_vars

\* C8 witness: the same refresh token has been refreshed for the second time
C8_Witness ==
  /\ last.op = "RefreshAccessToken"
  /\ last.err = OK
  /\ Cardinality(RefreshRows(store)) = 1
  /\ Cardinality(DOMAIN store \ RefreshRows(store)) = 3
  /\ Validates(last.tok, store, now)

\* C9: RefreshAccessToken called with an access token that validates fails
\* with ErrInvalidTokenType, returns no token and adds no record.
C9_RefreshWithAccess ==
  [][(/\ last'.op = "RefreshAccessToken"
      /\ last'.valid
      /\ Claims(last'.tok).TokenType = "access") =>
       /\ last'.err = ErrInvalidTokenType
       /\ last'.access = NoToken
       /\ DOMAIN store' = DOMAIN store
       /\ issued' = issued]_vars

\* C9 witness: RefreshAccessToken has refused a valid access token
C9_Witness ==
  /\ last.op = "RefreshAccessToken"
  /\ last.valid
  /\ Claims(last.tok).TokenType = "access"
  /\ last.err = ErrInvalidTokenType

\* C10: CleanupExpiredTokens run at time T deletes exactly the records whose
\* expires-at is strictly before T, revoked or not, and leaves every other
\* record, those expiring exactly at T included, as it was.
C10_Cleanup ==
  [][(last'.op = "CleanupExpiredTokens" /\ last'.err = OK) =>
       /\ DOMAIN store' = {i \in DOMAIN store : ~(store[i].expires_at < now)}
       /\ \A i \in DOMAIN store' : store'[i] = store[i]
       /\ last'.deleted = DOMAIN store \ DOMAIN store']_vars

\* C10 witness: a sweep has deleted a revoked and a non-revoked record and
\* kept a record expiring at the very time of the sweep
C10_Witness ==
  /\ last.op = "CleanupExpiredTokens"
  /\ last.err = OK
  /\ last.deleted \cap revokedEver # {}
  /\ last.deleted \ revokedEver # {}
  /\ \E i \in DOMAIN store : store[i].expires_at = now

\* C11: when either SaveTokenMetadata call of GenerateTokens fails,
\* GenerateTokens returns an error and two empty strings, although both
\* tokens have been signed by then.
C11_SaveFailure ==
  [][(last'.op = "GenerateTokens" /\ last'.dbErr # {}) =>
       /\ last'.err # OK
       /\ last'.access = NoToken
       /\ last'.refresh = NoToken
       /\ Cardinality(DOMAIN issued' \ DOMAIN issued) = 2]_vars

\* C11 witness: the second SaveTokenMetadata call has failed after the first
\* one stored the access token's record
C11_Witness ==
  /\ last.op = "GenerateTokens"
  /\ last.dbErr = {"SaveRefresh"}
  /\ last.err = ErrStore
  /\ \E i \in DOMAIN store : i \in DOMAIN issued /\ i + 1 \in DOMAIN issued \ DOMAIN store

\* C12: RevokeToken on a token string that parses and whose identifier has
\* no metadata record fails with the token-not-found error and leaves the
\* store as it was.
C12_RevokeUnknown ==
  [][(/\ last'.op = "RevokeToken"
      /\ last'.tok.segments = 3
      /\ Claims(last'.tok).ID \notin DOMAIN store) =>
       /\ last'.err = ErrTokenNotFound
       /\ store' = store]_vars

\* C12 witness: RevokeToken has been refused for a signed, unexpired token
\* whose record is gone
C12_Witness ==
  /\ last.op = "RevokeToken"
  /\ last.err = ErrTokenNotFound
  /\ WellSigned(last.tok)
  /\ now < Claims(last.tok).ExpiresAt
  /\ Claims(last.tok).ID \notin DOMAIN store
  /\ store # << >>

\* C13: a successful RevokeToken(t) changes t's record only, and there only
\* the revocation flag: every other record is as before, and every other
\* issued token, the other token of t's pair and the access tokens minted
\* from t included, gets the same answer from ValidateToken as before.
C13_RevokeFrame ==
  [][(last'.op = "RevokeToken" /\ last'.err = OK) =>
       LET id == Claims(last'.tok).ID
       IN /\ DOMAIN store' = DOMAIN store
          /\ store'[id] = [store[id] EXCEPT !.is_revoked = TRUE]
          /\ \A i \in DOMAIN store \ {id} : store'[i] = store[i]
          /\ \A i \in DOMAIN issued \ {id} :
               ValidateResult(issued[i], store', now', {}).err
                 = ValidateResult(issued[i], store, now, {}).err]_vars

\* C13 witness: a refresh token has been revoked while the access token of
\* its pair and an access token minted from it validate
C13_Witness ==
  /\ last.op = "RevokeToken"
  /\ last.err = OK
  /\ Claims(last.tok).TokenType = "refresh"
  /\ LET id == Claims(last.tok).ID
         u == Claims(last.tok).UserID
     IN /\ store[id].is_revoked
        /\ store[id].last_used_at # ZeroTime
        /\ \E i \in IssuedTo(u) : i < id /\ Validates(issued[i], store, now)
        /\ \E i \in IssuedTo(u) : i > id /\ Validates(issued[i], store, now)
        /\ Cardinality(IssuedTo(u)) = 3

\* C14: token identifiers are unique across issuances.  No two signed tokens
\* carry the same identifier, every record is the record of one signed token
\* (its owner, kind and expiry), and a successful GenerateTokens adds two
\* records under two identifiers no record and no earlier token had, leaving
\* the earlier records, and what ValidateToken answers for the earlier
\* tokens, as they were, while both new tokens validate.
C14_UniqueIds ==
  /\ [](\A i, j \in DOMAIN issued :
          Claims(issued[i]).ID = Claims(issued[j]).ID => i = j)
  /\ [](\A i \in DOMAIN store :
          /\ i \in DOMAIN issued
          /\ Cardinality({j \in DOMAIN issued : Claims(issued[j]).ID = i}) = 1
          /\ store[i].user_id = Claims(issued[i]).UserID
          /\ store[i].token_type = Claims(issued[i]).TokenType
          /\ store[i].expires_at = Claims(issued[i]).ExpiresAt)
  /\ [][(last'.op = "GenerateTokens" /\ last'.err = OK) =>
          LET new == {Claims(last'.access).ID, Claims(last'.refresh).ID}
              old == {Claims(issued[i]).ID : i \in DOMAIN issued}
          IN /\ Cardinality(new) = 2
             /\ new \cap old = {}
             /\ Cardinality(DOMAIN store') = Cardinality(DOMAIN store) + 2
             /\ \A i \in DOMAIN store : i \in DOMAIN store' /\ store'[i] = store[i]
             /\ \A i \in DOMAIN issued :
                  ValidateResult(issued[i], store', now', {}).err
                    = ValidateResult(issued[i], store, now, {}).err
             /\ Validates(last'.access, store', now')
             /\ Validates(last'.refresh, store', now')]_vars

\* C14 witness: GenerateTokens has succeeded twice for the same user, and
\* the four tokens have four records and all validate
C14_Witness ==
  /\ last.op = "GenerateTokens"
  /\ last.err = OK
  /\ Cardinality(IssuedTo(last.user)) = 4
  /\ Cardinality({Claims(issued[i]).ID : i \in IssuedTo(last.user)}) = 4
  /\ \A i \in IssuedTo(last.user) :
       i \in DOMAIN store /\ Validates(issued[i], store, now)
  /\ Cardinality({i \in DOMAIN store : store[i].token_type = "refresh"}) = 2

\* RevokeToken is called on a signed token whose record is revoked already
RevokeAgain == 
  /\ last'.op = "RevokeToken"
  /\ last'.tok \in Issued
  /\ Claims(last'.tok).ID \in DOMAIN store
  /\ store[Claims(last'.tok).ID].is_revoked

\* RevokeToken is called on a signed token whose record has been deleted
RevokeDeleted ==
  /\ last'.op = "RevokeToken"
  /\ last'.tok \in Issued
  /\ Claims(last'.tok).ID \notin DOMAIN store

\* RevokeAllTokensForUser(u) is called when every record of u is revoked
\* already or deleted
RevokeAllAgain ==
  /\ last'.op = "RevokeAllTokensForUser"
  /\ IssuedTo(last'.user) # {}
  /\ \A i \in IssuedTo(last'.user) : i \in DOMAIN store => store[i].is_revoked

\* CleanupExpiredTokens is called again at the time of the sweep before
CleanupAgain ==
  /\ last'.op = "CleanupExpiredTokens"
  /\ last.op = "CleanupExpiredTokens"
  /\ last.err = OK

\* C15 as stated: RevokeToken, RevokeAllTokensForUser and
\* CleanupExpiredTokens invoked again on an already revoked record, or after
\* the records they affect have been deleted, succeed and leave the store
\* unchanged.
C15_Idempotent ==
  [][(RevokeAgain \/ RevokeDeleted \/ RevokeAllAgain \/ CleanupAgain) =>
       /\ last'.err = OK
       /\ store' = store]_vars

\* C15 amended: RevokeToken on an already revoked record,
\* RevokeAllTokensForUser when every record of the user is revoked or
\* deleted, and a second CleanupExpiredTokens at the same sweep time succeed
\* and leave the store unchanged; RevokeToken after the token's record has
\* been deleted fails with the token-not-found error and leaves the store
\* unchanged.
C15_IdempotentKnown ==
  [][/\ (RevokeAgain \/ RevokeAllAgain \/ CleanupAgain) =>
          (last'.err = OK /\ store' = store)
     /\ CleanupAgain => last'.deleted = {}
     /\ RevokeDeleted => (last'.err = ErrTokenNotFound /\ store' = store)]_vars

\* C15 witness: RevokeToken has succeeded on a token that was refused, while
\* signed, unexpired and with its record present, as revoked already
C15_Witness ==
  /\ last.op = "RevokeToken"
  /\ last.err = OK
  /\ ~last.valid
  /\ last.tok \in Issued
  /\ now < Claims(last.tok).ExpiresAt
  /\ Claims(last.tok).ID \in revokedEver
  /\ Cardinality(RevokedRows(store)) = 1
  /\ Cardinality(DOMAIN store) > 1

\* the configured lifetime of a token of kind k
Lifetime(k) == IF k = "access" THEN AccessTokenDuration ELSE RefreshTokenDuration

\* e is (t truncated to the whole second)
WholeSecondOf(e, t) ==
  /\ e % TicksPerSecond = 0
  /\ e <= t
  /\ t < e + TicksPerSecond

\* C16 as stated: a token issued at t0 expires at t0 + its lifetime; after
\* t0 + access lifetime ValidateToken(access) fails as expired, before
\* t0 + refresh lifetime RefreshAccessToken(refresh) succeeds for a refresh
\* token that is not revoked, and the new access token expires at the time of
\* the refresh + access lifetime.
C16_ExpiryNominal ==
  /\ [](\A i \in DOMAIN store :
          /\ Claims(issued[i]).ExpiresAt
               = store[i].created_at + Lifetime(store[i].token_type)
          /\ (/\ store[i].token_type = "access"
              /\ now > store[i].created_at + AccessTokenDuration)
               => ValidateResult(issued[i], store, now, {}).err = ErrTokenExpired)
  /\ [][(/\ last'.op = "RefreshAccessToken"
         /\ last'.tok \in Issued
         /\ Claims(last'.tok).TokenType = "refresh"
         /\ Claims(last'.tok).ID \in DOMAIN store
         /\ ~store[Claims(last'.tok).ID].is_revoked
         /\ now < store[Claims(last'.tok).ID].created_at + RefreshTokenDuration) =>
          /\ last'.err = OK
          /\ Claims(last'.access).ExpiresAt = now + AccessTokenDuration]_vars

\* C16 amended: a token issued at t0 expires at t0 + its lifetime truncated
\* to the whole second; from the access token's expiry on
\* ValidateToken(access) fails as expired, before the refresh token's expiry
\* RefreshAccessToken(refresh) succeeds for a refresh token that is not
\* revoked, and the new access token expires at the time of the refresh +
\* access lifetime truncated to the whole second, whatever the expiry of the
\* old access token.
C16_ExpiryTruncated ==
  /\ [](\A i \in DOMAIN store :
          /\ WholeSecondOf(Claims(issued[i]).ExpiresAt,
                           store[i].created_at + Lifetime(store[i].token_type))
          /\ (/\ store[i].token_type = "access"
              /\ now >= Claims(issued[i]).ExpiresAt)
               => ValidateResult(issued[i], store, now, {}).err = ErrTokenExpired)
  /\ [][(/\ last'.op = "RefreshAccessToken"
         /\ last'.tok \in Issued
         /\ Claims(last'.tok).TokenType = "refresh"
         /\ Claims(last'.tok).ID \in DOMAIN store
         /\ ~store[Claims(last'.tok).ID].is_revoked
         /\ now < Claims(last'.tok).ExpiresAt) =>
          /\ last'.err = OK
          /\ WholeSecondOf(Claims(last'.access).ExpiresAt, now + AccessTokenDuration)]_vars

\* C16 witness: at an instant that is not a whole second, after the expiry
\* of the pair's access token, RefreshAccessToken has returned an access
\* token that expires later than the old one
C16_Witness ==
  /\ last.op = "RefreshAccessToken"
  /\ last.err = OK
  /\ now % TicksPerSecond # 0
  /\ \E i \in IssuedTo(Claims(last.tok).UserID) :
       /\ i \in DOMAIN store
       /\ store[i].token_type = "access"
       /\ store[i].created_at = store[Claims(last.tok).ID].created_at
       /\ ValidateResult(issued[i], store, now, {}).err = ErrTokenExpired
       /\ Claims(issued[i]).ExpiresAt < Claims(last.access).ExpiresAt

\* C17 as stated: a record leaves the store only in a step of
\* CleanupExpiredTokens, and only when its expiry is before the time of the
\* sweep; no other operation, the deletion of the owning user included,
\* removes a record.
C17_DeletedOnlyByCleanup ==
  [][\A i \in DOMAIN store :
       i \notin DOMAIN store' =>
         (last'.op = "CleanupExpiredTokens" /\ store[i].expires_at < now)]_vars

\* C17 amended: a record leaves the store only in a step of
\* CleanupExpiredTokens, when its expiry is before the time of the sweep, or
\* in the deletion of its owning user, which removes the user's records with
\* the user; issue, validate, refresh, revoke and revoke-all remove none.
C17_DeletedByCleanupOrCascade ==
  [][/\ \A i \in DOMAIN store :
          i \notin DOMAIN store' =>
            \/ last'.op = "CleanupExpiredTokens" /\ store[i].expires_at < now
            \/ /\ last'.op = "DeleteByID"
               /\ store[i].user_id = last'.user
               /\ last'.user \notin DOMAIN users'
     /\ last'.op \in {"GenerateTokens", "ValidateToken", "RefreshAccessToken",
                      "RevokeToken", "RevokeAllTokensForUser", "Update", "Tick"}
          => DOMAIN store \subseteq DOMAIN store']_vars

\* C17 witness: the deletion of a user has removed an unexpired record of
\* the user and kept the record of another user, revoked before
C17_Witness ==
  /\ last.op = "DeleteByID"
  /\ \E i \in IssuedTo(last.user) :
       i \notin DOMAIN store /\ now < Claims(issued[i]).ExpiresAt
  /\ \E i \in DOMAIN store : store[i].is_revoked

\* tok is signed under the secret, unexpired and past its not-before at the
\* present time, and the store holds no record under its identifier
ValidButUnrecorded(tok) ==
  /\ WellSigned(tok)
  /\ now < Claims(tok).ExpiresAt
  /\ Claims(tok).NotBefore <= now
  /\ Claims(tok).ID \notin DOMAIN store

\* C18 as stated: ValidateToken accepts a well-signed, unexpired token whose
\* identifier has no metadata record.
C18_MissingAccepted ==
  (last.op = "ValidateToken" /\ ValidButUnrecorded(last.tok)) => last.err = OK

\* C18 amended: ValidateToken treats a missing metadata record as revoked: a
\* well-signed, unexpired token whose identifier has no metadata record is
\* refused with ErrTokenRevoked, and no record is created for it.
C18_MissingRefused ==
  /\ (last.op = "ValidateToken" /\ ValidButUnrecorded(last.tok)) =>
       (last.err = ErrTokenRevoked /\ last.claims = NoClaims)
  /\ \A tok \in Presentable :
       ValidButUnrecorded(tok) =>
         /\ ValidateResult(tok, store, now, {}).err = ErrTokenRevoked
         /\ ValidateResult(tok, store, now, {}).store = store

\* C18 witness: ValidateToken has refused a well-signed, unexpired token
\* that was never revoked and whose record is gone
C18_Witness ==
  /\ last.op = "ValidateToken"
  /\ ValidButUnrecorded(last.tok)
  /\ last.err = ErrTokenRevoked
  /\ Claims(last.tok).ID \notin revokedEver
  /\ store # << >>

\* tok passes every check of ValidateToken on the present store at the
\* present time
FullyValid(tok) ==
  /\ WellSigned(tok)
  /\ now < Claims(tok).ExpiresAt
  /\ Claims(tok).NotBefore <= now
  /\ Claims(tok).ID \in DOMAIN store
  /\ ~store[Claims(tok).ID].is_revoked

\* C19: a step of RefreshAccessToken returns an access token, or adds a
\* record, only if the presented token passed every check of ValidateToken
\* in the state of the call and has kind refresh; with a refresh token that
\* is revoked, expired or without record it returns no token, adds no record
\* and fails with the error of the check that refused it.
C19_RefreshOnlyIfValid ==
  [][last'.op = "RefreshAccessToken" =>
       /\ (last'.access # NoToken \/ DOMAIN store' # DOMAIN store) =>
            /\ FullyValid(last'.tok)
            /\ Claims(last'.tok).TokenType = "refresh"
            /\ last'.err = OK
       /\ (WellSigned(last'.tok) /\ ~FullyValid(last'.tok)) =>
            /\ last'.access = NoToken
            /\ store' = store
            /\ last'.err = IF ~(now < Claims(last'.tok).ExpiresAt)
                             THEN ErrTokenExpired
                           ELSE IF ~(Claims(last'.tok).NotBefore <= now)
                             THEN ErrTokenNotValidYet
                           ELSE ErrTokenRevoked]_vars

\* C19 witness: RefreshAccessToken has refused an unexpired refresh token
\* whose record is revoked, after having minted from it before
C19_Witness ==
  /\ last.op = "RefreshAccessToken"
  /\ last.err = ErrTokenRevoked
  /\ Claims(last.tok).TokenType = "refresh"
  /\ Claims(last.tok).ID \in DOMAIN store
  /\ store[Claims(last.tok).ID].is_revoked
  /\ store[Claims(last.tok).ID].last_used_at # ZeroTime
  /\ last.access = NoToken
  /\ Cardinality(DOMAIN store) = 3

\* C20: once RevokeAllTokensForUser(u) has completed, no token of u that a
\* RefreshAccessToken or GenerateTokens call under way at that moment goes
\* on to produce validates.
C20_NoOutrun ==
  \A i \in outrun : ~Validates(issued[i], store, now)

\* C21: RevokeToken on a token that has expired, or whose signature does not
\* verify, and whose identifier has a record sets that record's revocation
\* flag, changes nothing else and succeeds.
C21_RevokeInvalidToken ==
  [][(/\ last'.op = "RevokeToken"
      /\ last'.tok.segments = 3
      /\ Claims(last'.tok).ID \in DOMAIN store
      /\ (~(now < Claims(last'.tok).ExpiresAt) \/ ~SignatureValid(last'.tok))) =>
       LET id == Claims(last'.tok).ID
       IN /\ last'.err = OK
          /\ store' = [store EXCEPT ![id].is_revoked = TRUE]]_vars

\* C21 witness: RevokeToken has succeeded on an expired token re-signed with
\* another key, whose record was not revoked before
C21_Witness ==
  /\ last.op = "RevokeToken"
  /\ last.err = OK
  /\ last.tok.key # JWTSecret
  /\ ~(now < Claims(last.tok).ExpiresAt)
  /\ RevokedRows(store) = {Claims(last.tok).ID}
  /\ revokedEver = {Claims(last.tok).ID}
  /\ store[Claims(last.tok).ID].last_used_at = ZeroTime

\* C22: when GenerateTokens has saved the access record and the save of the
\* refresh record then fails, it returns an error and no tokens, and the
\* access record stays in the store, not revoked: nothing is rolled back.
C22_NoRollback ==
  [][(last'.op = "GenerateTokens" /\ last'.dbErr = {"SaveRefresh"}) =>
       LET new == DOMAIN issued' \ DOMAIN issued
           acc == {i \in new : Claims(issued'[i]).TokenType = "access"}
       IN /\ last'.err # OK
          /\ last'.access = NoToken /\ last'.refresh = NoToken
          /\ Cardinality(acc) = 1
          /\ DOMAIN store' = DOMAIN store \cup acc
          /\ \A i \in DOMAIN store : store'[i] = store[i]
          /\ \A i \in acc :
               /\ i \notin DOMAIN store
               /\ store'[i].is_revoked = FALSE
               /\ store'[i].token_type = "access"
               /\ store'[i].user_id = last'.user
               /\ Validates(issued'[i], store', now')]_vars

\* C22 witness: after the failed save of the refresh record, the store
\* holds an access record whose refresh token has none
C22_Witness ==
  /\ last.op = "GenerateTokens"
  /\ last.dbErr = {"SaveRefresh"}
  /\ last.access = NoToken
  /\ \E i \in DOMAIN store :
       /\ store[i].token_type = "access"
       /\ store[i].created_at = now
       /\ ~store[i].is_revoked
       /\ i + 1 \in DOMAIN issued
       /\ i + 1 \notin DOMAIN store
  /\ Cardinality(DOMAIN store) = 3

C24_FailsAtLookup ==
  [][(/\ last'.op = "RefreshAccessToken"
      /\ IsRefreshToken(Claims(last'.tok))
      /\ Claims(last'.tok).UserID \notin DOMAIN users)
       => last'.err = ErrGetUser /\ store' = store]_vars

\* C24: RefreshAccessToken presented with a refresh token whose user is no
\* longer in the users table fails and creates no metadata record.  The
\* records of the user went with the user, so the call fails in ValidateToken
\* (token expired, or record missing and so taken as revoked); it fails at
\* the user lookup only when the user is deleted after ValidateToken has
\* accepted the token and before the lookup.
C24_AbsentUser ==
  [][/\ (/\ last'.op = "RefreshAccessToken"
         /\ IsRefreshToken(Claims(last'.tok))
         /\ Claims(last'.tok).UserID \notin DOMAIN users)
          => /\ last'.err = (IF now < Claims(last'.tok).ExpiresAt
                             THEN ErrTokenRevoked ELSE ErrTokenExpired)
             /\ last'.access = NoToken
             /\ store' = store
             /\ issued' = issued
     /\ (last'.op = "RefreshIssue" /\ inflight.user \notin DOMAIN users)
          => /\ last'.err = ErrGetUser
             /\ last'.access = NoToken
             /\ store' = store
             /\ issued' = issued]_vars

\* C24 witness: a refresh token of a deleted user was presented and refused
\* as revoked, no record of that user being left
C24_Witness ==
  /\ last.op = "RefreshAccessToken"
  /\ IsRefreshToken(Claims(last.tok))
  /\ Claims(last.tok).UserID \notin DOMAIN users
  /\ last.err = ErrTokenRevoked
  /\ \A i \in DOMAIN store : store[i].user_id # Claims(last.tok).UserID

\* the user was deleted between the validation and the lookup of one call
C24_LookupFailed ==
  /\ last.op = "RefreshIssue"
  /\ last.err = ErrGetUser
  /\ last.user \notin DOMAIN users

\* C25: when UpdateLastUsed fails during ValidateToken, the call still
\* succeeds and returns the claims of the token, the record staying as it
\* was; a token the service would accept is accepted whether or not the
\* update of last_used_at fails.
C25_LastUsedBestEffort ==
  [][(last'.op = "ValidateToken" /\ "IsTokenRevoked" \notin last'.dbErr) =>
       /\ "UpdateLastUsed" \in last'.dbErr =>
            /\ last'.err = OK
            /\ last'.claims = Claims(last'.tok)
            /\ store' = store
       /\ Validates(last'.tok, store, now) =>
            last'.err = OK /\ last'.claims = Claims(last'.tok)]_vars

\* C25 witness: a validation succeeded although its update failed, the
\* record still showing no use
C25_Witness ==
  /\ last.op = "ValidateToken"
  /\ last.dbErr = {"UpdateLastUsed"}
  /\ last.err = OK
  /\ last.claims.ID \in DOMAIN store
  /\ store[last.claims.ID].last_used_at = ZeroTime

\* C26: the last step of ValidateToken changes last_used_at of the token's
\* record and nothing else, so a revocation committed after the call's
\* revocation check is still there when the call returns success; no record
\* that was ever revoked is found non-revoked again.
C26_RevocationNotLost ==
  /\ [][last'.op = "ValidateTouch" =>
          LET id == last'.claims.ID
          IN /\ last'.err = OK
             /\ DOMAIN store' = DOMAIN store
             /\ \A i \in DOMAIN store :
                  store'[i] = IF i = id
                              THEN [store[i] EXCEPT !.last_used_at = now]
                              ELSE store[i]]_vars
  /\ [](\A i \in revokedEver \cap DOMAIN store : store[i].is_revoked)

\* C26 witness: ValidateToken returned success for a token that RevokeToken
\* revoked after the revocation check; the record shows both the use and the
\* revocation, the other token of the pair being untouched
C26_Witness ==
  /\ last.op = "ValidateTouch"
  /\ last.err = OK
  /\ Cardinality(DOMAIN store) = 2
  /\ last.claims.ID \in DOMAIN store
  /\ store[last.claims.ID].is_revoked
  /\ store[last.claims.ID].last_used_at = now
  /\ \E j \in DOMAIN store : ~store[j].is_revoked /\ store[j].last_used_at = ZeroTime

\* C27: a ValidateToken call that fails leaves every metadata record as it
\* was, and the last_used_at of a record changes only in a step in which
\* ValidateToken, called directly or by RefreshAccessToken, accepts the
\* token that carries the identifier of that record.
C27_LastUsedFrame ==
  [][/\ (last'.op = "ValidateToken" /\ last'.err # OK) => store' = store
     /\ \A i \in DOMAIN store \cap DOMAIN store' :
          store'[i].last_used_at # store[i].last_used_at =>
            /\ \/ last'.op = "ValidateToken" /\ last'.err = OK
               \/ last'.op = "RefreshAccessToken" /\ last'.valid
            /\ WellSigned(last'.tok)
            /\ Claims(last'.tok).ID = i
            /\ store'[i].last_used_at = now]_vars

\* C27 witness: ValidateToken has refused a revoked token and left its
\* record without a use, while another record shows the use of its own
\* token
C27_Witness ==
  /\ last.op = "ValidateToken"
  /\ last.err = ErrTokenRevoked
  /\ Claims(last.tok).ID \in DOMAIN store
  /\ store[Claims(last.tok).ID].is_revoked
  /\ store[Claims(last.tok).ID].last_used_at = ZeroTime
  /\ \E j \in DOMAIN store : store[j].last_used_at # ZeroTime

\* C28: ValidateToken accepts a refresh token that is signed under the
\* secret, within its validity and recorded as non-revoked, and returns its
\* claims with token type refresh; an access token in the same condition is
\* refused for its type by RefreshAccessToken only.
C28_NoKindCheck ==
  [][LET c == Claims(last'.tok)
         good == /\ WellSigned(last'.tok)
                 /\ now < c.ExpiresAt
                 /\ now >= c.NotBefore
                 /\ c.ID \in DOMAIN store
                 /\ ~store[c.ID].is_revoked
     IN /\ (last'.op = "ValidateToken" /\ good) =>
             /\ last'.err = OK
             /\ last'.claims = c
             /\ c.TokenType \in {TokenTypeAccess, TokenTypeRefresh}
        /\ last'.op = "ValidateToken" => last'.err # ErrInvalidTokenType
        /\ (last'.op = "RefreshAccessToken" /\ good) =>
             (last'.err = ErrInvalidTokenType <=> c.TokenType # TokenTypeRefresh)]_vars

\* C28 witness: ValidateToken has accepted a refresh token and returned its
\* claims
C28_Witness ==
  /\ last.op = "ValidateToken"
  /\ last.err = OK
  /\ last.claims.TokenType = TokenTypeRefresh
  /\ last.claims = Claims(last.tok)
  /\ store[last.claims.ID].token_type = TokenTypeRefresh

\* C29: CleanupExpiredTokens changes the answer of ValidateToken for no
\* token: each record it deletes is the record of a token that ValidateToken
\* already refuses as expired, and a token without a record, revoked before
\* or not, is never accepted.
C29_CleanupKeepsValidity ==
  /\ [][last'.op = "CleanupExpiredTokens" =>
          /\ last'.deleted = DOMAIN store \ DOMAIN store'
          /\ \A tok \in Presentable :
               ValidateResult(tok, store', now', {}).err
                 = ValidateResult(tok, store, now, {}).err
          /\ \A i \in last'.deleted :
               ValidateResult(issued[i], store, now, {}).err = ErrTokenExpired]_vars
  /\ [](\A tok \in Presentable :
          (tok.segments = 3 /\ Claims(tok).ID \notin DOMAIN store)
            => ~Validates(tok, store, now))

\* C29 witness: the cleanup has deleted the record of a revoked token, and
\* the token is refused
C29_Witness ==
  /\ last.op = "CleanupExpiredTokens"
  /\ \E i \in last.deleted :
       /\ i \in revokedEver
       /\ i \notin DOMAIN store
       /\ ~Validates(issued[i], store, now)
  /\ DOMAIN store # {}

\* the lifetime signed into tok, in seconds: expiry less issue time
SignedLifetime(tok) ==
  MarshalNumericDate(Claims(tok).ExpiresAt) - MarshalNumericDate(Claims(tok).IssuedAt)

\* C30: the expires_in and refresh_expires_in of a token response of
\* Authenticate or Register are the lifetimes signed into the access and the
\* refresh token of that response, whatever durations are configured.
C30_ExpiresInAsSigned ==
  (last.op \in {"Authenticate", "Register"} /\ last.err = OK
     /\ last.access # NoToken) =>
    /\ last.expires_in = SignedLifetime(last.access)
    /\ last.refresh_expires_in = SignedLifetime(last.refresh)

====
